---- MODULE Spec2Model ----
(***************************************************************************)
(* Crossword fill as a constraint satisfaction problem: the domain store,  *)
(* node consistency, AC-3, and the plain and interleaved backtracking      *)
(* searches of CrosswordCreator (generate.py).                             *)
(*                                                                         *)
(* Words are sequences of letters.  Python indices are 0-based, TLA+       *)
(* sequences 1-based: an overlap index k of the program reads letter k+1.  *)
(* Iteration orders that Python leaves to the hash seed (sets of slots,    *)
(* sets of words) are nondeterministic choices.  The counters              *)
(* BACKTRACK_COUNTER and WORDS_TESTED are diagnostics only and are left    *)
(* out.  propagated records the domains solve hands to the search.         *)
(***************************************************************************)
EXTENDS Integers, Sequences, FiniteSets, TLC

VARIABLES crossword, interleaving, keys, heap, self_domains,
          assignment, stack, arcs, revision, ac3_result, cons, retval,
          propagated, result, pc

vars == <<crossword, interleaving, keys, heap, self_domains,
          assignment, stack, arcs, revision, ac3_result, cons, retval,
          propagated, result, pc>>

(***************************************************************************)
(* Bounds of the model.                                                    *)
(***************************************************************************)
MaxWords == 4

(***************************************************************************)
(* The puzzle model (crossword.py): slots, their cells, overlaps and       *)
(* neighbors.                                                              *)
(***************************************************************************)
ACROSS == "across"
DOWN == "down"

Variable(i, j, direction, length) ==
    [i |-> i, j |-> j, direction |-> direction, length |-> length]

Cells(v) ==
    [k \in 1..v.length |->
        <<v.i + (IF v.direction = DOWN THEN k - 1 ELSE 0),
          v.j + (IF v.direction = ACROSS THEN k - 1 ELSE 0)>>]

None == <<>>

\* the entry overlaps[x, y] that Crossword computes from the cells
Overlap(x, y) ==
    LET shared == {p \in (1..x.length) \X (1..y.length) :
                       Cells(x)[p[1]] = Cells(y)[p[2]]}
    IN  IF shared = {} THEN None
        ELSE LET p == CHOOSE q \in shared : TRUE IN <<p[1] - 1, p[2] - 1>>

\* the Crossword object: its slots, its word list and its overlaps table
Crossword(variables, wordlist) ==
    [variables |-> variables,
     words     |-> wordlist,
     overlaps  |-> [p \in {q \in variables \X variables : q[1] # q[2]} |->
                       Overlap(p[1], p[2])]]

overlaps(x, y) == crossword.overlaps[<<x, y>>]

neighbors(var) ==
    {v \in crossword.variables : v # var /\ overlaps(v, var) # None}

(***************************************************************************)
(* The inputs: grid shapes and the vocabulary the word lists are drawn     *)
(* from.                                                                   *)
(***************************************************************************)
Puzzles ==
    { {Variable(0, 0, ACROSS, 3)},
      {Variable(0, 0, ACROSS, 3), Variable(0, 1, DOWN, 2)},
      {Variable(0, 0, ACROSS, 3), Variable(2, 0, ACROSS, 3)},
      {Variable(0, 0, ACROSS, 3), Variable(0, 0, DOWN, 3)},
      {Variable(0, 0, ACROSS, 3), Variable(0, 1, DOWN, 3)},
      {Variable(0, 0, DOWN, 3), Variable(1, 0, ACROSS, 3),
       Variable(0, 2, DOWN, 3)} }

Vocabulary ==
    { <<"a", "b">>,
      <<"a", "a", "a">>, <<"a", "b", "b">>,
      <<"b", "a", "a">>, <<"b", "b", "b">> }

WordLists == {W \in SUBSET Vocabulary : Cardinality(W) <= MaxWords}

(***************************************************************************)
(* Helpers on sequences and sets.                                          *)
(***************************************************************************)
Range(s) == {s[k] : k \in DOMAIN s}

\* every listing of the set S, each element once
Listings(S) ==
    {s \in [1..Cardinality(S) -> S] : Range(s) = S}

Front(s) == SubSeq(s, 1, Len(s) - 1)

Last(s) == s[Len(s)]

(***************************************************************************)
(* The domain store.  self.domains is a reference to a dict object; heap   *)
(* holds the dict objects that are still referenced.                       *)
(***************************************************************************)
domains == heap[self_domains]

ObjIds == 0..Cardinality(crossword.variables)

\* the dict objects still referenced by self.domains or a frame's snapshot
Live(ref, stk) == {ref} \cup {stk[k].domains_copy : k \in DOMAIN stk}

Collect(h, ref, stk) ==
    [o \in (DOMAIN h) \cap Live(ref, stk) |-> h[o]]

(***************************************************************************)
(* Node consistency.                                                       *)
(***************************************************************************)
\* a variant that only drops the words that are too short
invalid_vals_shorter(doms, domain) ==
    {val \in doms[domain] : Len(val) < domain.length}

\* the words enforce_node_consistency removes from one slot's domain
invalid_vals(doms, domain) == {val \in doms[domain] : Len(val) # domain.length}

enforce_node_consistency(doms) ==
    [domain \in DOMAIN doms |-> doms[domain] \ invalid_vals(doms, domain)]

(***************************************************************************)
(* Arc revision.                                                           *)
(***************************************************************************)
\* a variant that reads both words at x's index
overlap_satisfied_same_index(x, y, val_x, val_y) ==
    IF overlaps(x, y) = None THEN TRUE
    ELSE LET index_x == overlaps(x, y)[1]
         IN  val_x[index_x + 1] = val_y[index_x + 1]

overlap_satisfied(x, y, val_x, val_y) ==
    IF overlaps(x, y) = None THEN TRUE
    ELSE LET index_x == overlaps(x, y)[1]
             index_y == overlaps(x, y)[2]
         IN  val_x[index_x + 1] = val_y[index_y + 1]

\* a variant that keeps a word only if every word of y supports it
to_remove_all(doms, x, y) ==
    {val_x \in doms[x] :
        ~ \A val_y \in doms[y] :
              val_x # val_y /\ overlap_satisfied(x, y, val_x, val_y)}

\* a variant that lets a word support itself
to_remove_same(doms, x, y) ==
    {val_x \in doms[x] :
        ~ \E val_y \in doms[y] : overlap_satisfied(x, y, val_x, val_y)}

\* the words of x's domain that revise(x, y) finds without support in y
\* an empty domain of y taken as no constraint on x
to_remove_unless_empty(doms, x, y) ==
    {val_x \in doms[x] :
        /\ doms[y] # {}
        /\ ~ \E val_y \in doms[y] :
                val_x # val_y /\ overlap_satisfied(x, y, val_x, val_y)}

to_remove(doms, x, y) ==
    {val_x \in doms[x] :
        ~ \E val_y \in doms[y] :
              val_x # val_y /\ overlap_satisfied(x, y, val_x, val_y)}

\* revise(x, y): the store it leaves and the value it returns
\* revise reporting a revision whether or not it removed a word
revise_always(doms, x, y) ==
    [domains  |-> [doms EXCEPT ![x] = doms[x] \ to_remove(doms, x, y)],
     revision |-> TRUE]

revise(doms, x, y) ==
    [domains  |-> [doms EXCEPT ![x] = doms[x] \ to_remove(doms, x, y)],
     revision |-> to_remove(doms, x, y) # {}]

(***************************************************************************)
(* AC-3: the queue seeded when no arcs are given, in the order of the      *)
(* keys of self.domains.                                                   *)
(***************************************************************************)
IsArc(p) == p[1] # p[2]

\* a variant that seeds each pair of slots in one direction only
all_arcs_forward(ks) ==
    LET n == Len(ks)
    IN  SelectSeq([p \in 1..(n * n) |->
                       <<ks[((p - 1) \div n) + 1], ks[((p - 1) % n) + 1]>>],
                  LAMBDA p : \E a, b \in 1..n : a < b /\ p = <<ks[a], ks[b]>>)

all_arcs(ks) ==
    LET n == Len(ks)
    IN  SelectSeq([p \in 1..(n * n) |->
                       <<ks[((p - 1) \div n) + 1], ks[((p - 1) % n) + 1]>>],
                  IsArc)

\* the arcs (z, x) appended for the slots z, listed in the order zs
arcs_to(zs, x) == [k \in 1..Len(zs) |-> <<zs[k], x>>]

(***************************************************************************)
(* The assignment is a dict: a sequence of <<slot, word>> in insertion     *)
(* order.                                                                  *)
(***************************************************************************)
Assigned(asg) == {asg[k][1] : k \in DOMAIN asg}

\* assignment[v], for a slot v in the assignment
ValueOf(asg, v) == asg[CHOOSE k \in DOMAIN asg : asg[k][1] = v][2]

\* a variant that never finds the assignment complete
assignment_complete_never(asg) ==
    \A domain \in crossword.variables : domain \in Assigned(asg) /\ FALSE

assignment_complete(asg) ==
    \A domain \in crossword.variables : domain \in Assigned(asg)

RECURSIVE consistent_from_nodup(_, _, _)
\* a variant without the test for a word used twice
consistent_from_nodup(asg, k, processed) ==
    IF k > Len(asg) THEN TRUE
    ELSE LET variable_x == asg[k][1]
             value_x == asg[k][2]
         IN  IF Len(value_x) # variable_x.length THEN FALSE
             ELSE IF \E variable_y \in neighbors(variable_x) :
                        /\ variable_y \in Assigned(asg)
                        /\ ~ overlap_satisfied(variable_x, variable_y, value_x,
                                 ValueOf(asg, variable_y))
                  THEN FALSE
             ELSE consistent_from_nodup(asg, k + 1, processed \cup {value_x})

RECURSIVE consistent_from(_, _, _)
\* the loop of consistent from the k-th key on, processed being the words
\* seen before
consistent_from(asg, k, processed) ==
    IF k > Len(asg) THEN TRUE
    ELSE LET variable_x == asg[k][1]
             value_x == asg[k][2]
         IN  IF value_x \in processed THEN FALSE
             ELSE IF Len(value_x) # variable_x.length THEN FALSE
             ELSE IF \E variable_y \in neighbors(variable_x) :
                        /\ variable_y \in Assigned(asg)
                        /\ ~ overlap_satisfied(variable_x, variable_y, value_x,
                                 ValueOf(asg, variable_y))
                  THEN FALSE
             ELSE consistent_from(asg, k + 1, processed \cup {value_x})

\* consistent tested as the bound method (always truthy), never called
consistent_uncalled(asg) == TRUE

consistent(asg) == consistent_from(asg, 1, {})

(***************************************************************************)
(* Heuristics.  Both return the set of results the iteration order of the  *)
(* underlying Python sets allows.                                          *)
(***************************************************************************)
\* the count without the "not" of line 230
values_ruleout_satisfied(doms, var, value) ==
    Cardinality({p \in UNION {{<<other_var, other_val>> :
                                   other_val \in doms[other_var]} :
                               other_var \in neighbors(var)} :
                    overlap_satisfied(var, p[1], value, p[2])})

values_ruleout(doms, var, value) ==
    Cardinality({p \in UNION {{<<other_var, other_val>> :
                                   other_val \in doms[other_var]} :
                               other_var \in neighbors(var)} :
                    ~ overlap_satisfied(var, p[1], value, p[2])})

\* the dict values_ruleout built by order_domain_values
ruleout_counts(doms, var) ==
    [value \in doms[var] |-> values_ruleout(doms, var, value)]

\* the lists sorted(values_ruleout, key = count) can return
order_domain_values(doms, var) ==
    {s \in Listings(doms[var]) :
        \A k \in 1..(Len(s) - 1) :
            ruleout_counts(doms, var)[s[k]] <= ruleout_counts(doms, var)[s[k + 1]]}

\* The loops at lines 259 and 281 walk one of these lists.  A frame keeps
\* the counts of the values not yet walked; the next value of the list is
\* any of them with the least count.
next_values(counts) ==
    {value \in DOMAIN counts : \A other \in DOMAIN counts :
                                   counts[value] <= counts[other]}

without(counts, value) ==
    [other \in (DOMAIN counts) \ {value} |-> counts[other]]

\* the sort key (len(domain), -len(neighbors)) of x is at most that of y
\* the sort key with the neighbor count not negated
key_leq_fewest(doms, x, y) ==
    \/ Cardinality(doms[x]) < Cardinality(doms[y])
    \/ /\ Cardinality(doms[x]) = Cardinality(doms[y])
       /\ Cardinality(neighbors(x)) <= Cardinality(neighbors(y))

key_leq(doms, x, y) ==
    \/ Cardinality(doms[x]) < Cardinality(doms[y])
    \/ /\ Cardinality(doms[x]) = Cardinality(doms[y])
       /\ Cardinality(neighbors(x)) >= Cardinality(neighbors(y))

select_unassigned_variable(doms, asg) ==
    LET unassigned == crossword.variables \ Assigned(asg)
    IN  {var \in unassigned : \A other \in unassigned : key_leq(doms, var, other)}

(***************************************************************************)
(* The state after CrosswordCreator(crossword), at the call of solve.      *)
(***************************************************************************)
\* a variant that returns an empty dict for None
EmptyDict == [found |-> TRUE, assignment |-> <<>>]

NoSolution == [found |-> FALSE, assignment |-> <<>>]

Returned(asg) == [found |-> TRUE, assignment |-> asg]

\* Python's truth value of a returned dict or None
Truthy(r) == r.found /\ r.assignment # <<>>

Init ==
    /\ \E variables \in Puzzles, wordlist \in WordLists :
           crossword = Crossword(variables, wordlist)
    /\ interleaving \in BOOLEAN
    /\ keys \in Listings(crossword.variables)
    /\ heap = [o \in {0} |-> [var \in crossword.variables |-> crossword.words]]
    /\ self_domains = 0
    /\ assignment = <<>>
    /\ stack = <<>>
    /\ arcs = <<>>
    /\ revision = FALSE
    /\ ac3_result = TRUE
    /\ cons = TRUE
    /\ retval = NoSolution
    /\ propagated = [var \in crossword.variables |-> crossword.words]
    /\ result = NoSolution
    /\ pc = "solve"

(***************************************************************************)
(* solve, line 96: node consistency, then the call self.ac3().             *)
(***************************************************************************)
solve_node_consistency ==
    /\ pc = "solve"
    /\ heap' = [heap EXCEPT ![self_domains] = enforce_node_consistency(domains)]
    /\ arcs' = <<>>
    /\ pc' = "ac3"
    /\ UNCHANGED <<crossword, interleaving, keys, self_domains,
                   assignment, stack, revision, ac3_result, cons, retval,
                   propagated, result>>

(***************************************************************************)
(* ac3, lines 165-170: an absent or empty queue is replaced by every       *)
(* ordered pair of distinct slots.                                         *)
(***************************************************************************)
ac3_seed ==
    /\ pc = "ac3"
    /\ arcs' = IF arcs = <<>> THEN all_arcs(keys) ELSE arcs
    /\ pc' = "ac3_loop"
    /\ UNCHANGED <<crossword, interleaving, keys, heap, self_domains,
                   assignment, stack, revision, ac3_result, cons, retval,
                   propagated, result>>

(***************************************************************************)
(* ac3, lines 173-182: one iteration of the while loop.                    *)
(***************************************************************************)
\* a variant of the test that no domain passes
emptied_never(doms, domain_x) == Cardinality(doms[domain_x]) < 0

\* line 178: not self.domains[domain_x]
emptied(doms, domain_x) == doms[domain_x] = {}

ac3_step ==
    /\ pc = "ac3_loop"
    /\ arcs # <<>>
    /\ LET domain_x == Last(arcs)[1]
           domain_y == Last(arcs)[2]
           revised == revise(domains, domain_x, domain_y)
       IN  /\ heap' = [heap EXCEPT ![self_domains] = revised.domains]
           /\ revision' = revised.revision
           /\ IF revised.revision /\ emptied(revised.domains, domain_x)
              THEN /\ arcs' = Front(arcs)
                   /\ ac3_result' = FALSE
                   /\ pc' = "ac3_return"
              ELSE /\ IF revised.revision
                      THEN \E zs \in Listings(neighbors(domain_x) \ {domain_y}) :
                               arcs' = Front(arcs) \o arcs_to(zs, domain_x)
                      ELSE arcs' = Front(arcs)
                   /\ UNCHANGED <<ac3_result, pc>>
    /\ UNCHANGED <<crossword, interleaving, keys, self_domains,
                   assignment, stack, cons, retval, propagated, result>>

\* ac3, line 183: the queue is empty
ac3_exit ==
    /\ pc = "ac3_loop"
    /\ arcs = <<>>
    /\ ac3_result' = TRUE
    /\ pc' = "ac3_return"
    /\ UNCHANGED <<crossword, interleaving, keys, heap, self_domains,
                   assignment, stack, arcs, revision, cons, retval,
                   propagated, result>>

(***************************************************************************)
(* solve, lines 98-103: the value of self.ac3() is dropped and the search  *)
(* the flag selects is called with dict().                                 *)
(***************************************************************************)
solve_search ==
    /\ pc = "ac3_return"
    /\ stack = <<>>
    /\ propagated' = domains
    /\ arcs' = <<>>
    /\ pc' = "backtrack"
    /\ UNCHANGED <<crossword, interleaving, keys, heap, self_domains,
                   assignment, stack, revision, ac3_result, cons, retval,
                   result>>

(***************************************************************************)
(* backtrack, lines 253-259: entry of one call.                            *)
(***************************************************************************)
\* snapshot and entry record what the call saw on entry: the contents of
\* self.domains (what deepcopy copied at line 280) and the assignment it
\* received.  Nothing in the program reads them back.
Frame(variable, counts, copy) ==
    [variable |-> variable, values |-> counts, domains_copy |-> copy,
     snapshot |-> domains, entry |-> assignment]

Top == Last(stack)

\* the frame of the running call once the loop has taken value
Advance(stk, value) == [stk EXCEPT ![Len(stk)].values = without(@, value)]

backtrack_enter ==
    /\ pc = "backtrack"
    /\ ~ interleaving
    /\ IF assignment_complete(assignment)
       THEN /\ retval' = Returned(assignment)
            /\ pc' = "return"
            /\ UNCHANGED stack
       ELSE /\ \E variable \in select_unassigned_variable(domains, assignment) :
                stack' = Append(stack, Frame(variable,
                                             ruleout_counts(domains, variable),
                                             self_domains))
            /\ pc' = "loop"
            /\ UNCHANGED retval
    /\ UNCHANGED <<crossword, interleaving, keys, heap, self_domains,
                   assignment, arcs, revision, ac3_result, cons, propagated,
                   result>>

\* backtrack, lines 259-261: the next value is assigned
backtrack_assign ==
    /\ pc = "loop"
    /\ ~ interleaving
    /\ \E value \in next_values(Top.values) :
           /\ assignment' = Append(assignment, <<Top.variable, value>>)
           /\ stack' = Advance(stack, value)
    /\ pc' = "check"
    /\ UNCHANGED <<crossword, interleaving, keys, heap, self_domains,
                   arcs, revision, ac3_result, cons, retval, propagated,
                   result>>

\* backtrack, lines 262-263 and 266: recurse when consistent, else undo
backtrack_check ==
    /\ pc = "check"
    /\ ~ interleaving
    /\ cons' = consistent(assignment)
    /\ IF consistent(assignment)
       THEN /\ pc' = "backtrack"
            /\ UNCHANGED assignment
       ELSE /\ assignment' = Front(assignment)
            /\ pc' = "loop"
    /\ UNCHANGED <<crossword, interleaving, keys, heap, self_domains,
                   stack, arcs, revision, ac3_result, retval, propagated,
                   result>>

\* backtrack_resume without the del of line 266
backtrack_resume_keep ==
    /\ pc = "return"
    /\ ~ interleaving
    /\ stack # <<>>
    /\ IF Truthy(retval)
       THEN /\ stack' = Front(stack)
            /\ UNCHANGED pc
       ELSE /\ pc' = "loop"
            /\ UNCHANGED stack
    /\ UNCHANGED <<crossword, interleaving, keys, heap, self_domains,
                   assignment, arcs, revision, ac3_result, cons, retval,
                   propagated, result>>

\* backtrack, lines 264-266: the recursive call has returned
backtrack_resume ==
    /\ pc = "return"
    /\ ~ interleaving
    /\ stack # <<>>
    /\ IF Truthy(retval)
       THEN /\ stack' = Front(stack)
            /\ UNCHANGED <<assignment, pc>>
       ELSE /\ assignment' = Front(assignment)
            /\ pc' = "loop"
            /\ UNCHANGED stack
    /\ UNCHANGED <<crossword, interleaving, keys, heap, self_domains,
                   arcs, revision, ac3_result, cons, retval, propagated,
                   result>>

\* backtrack, line 267: no value is left
backtrack_fail ==
    /\ pc = "loop"
    /\ ~ interleaving
    /\ DOMAIN Top.values = {}
    /\ stack' = Front(stack)
    /\ retval' = NoSolution
    /\ pc' = "return"
    /\ UNCHANGED <<crossword, interleaving, keys, heap, self_domains,
                   assignment, arcs, revision, ac3_result, cons, propagated,
                   result>>

(***************************************************************************)
(* backtrack_ac3, lines 274-281: entry of one call; deepcopy makes a new   *)
(* dict object.                                                            *)
(***************************************************************************)
NewObj(h) ==
    CHOOSE o \in ObjIds \ DOMAIN h : \A q \in ObjIds \ DOMAIN h : o <= q

deepcopy(h, ref) ==
    [o \in (DOMAIN h) \cup {NewObj(h)} |-> IF o = NewObj(h) THEN h[ref] ELSE h[o]]

backtrack_ac3_enter ==
    /\ pc = "backtrack"
    /\ interleaving
    /\ IF assignment_complete(assignment)
       THEN /\ retval' = Returned(assignment)
            /\ pc' = "return"
            /\ UNCHANGED <<stack, heap>>
       ELSE /\ \E variable \in select_unassigned_variable(domains, assignment) :
                stack' = Append(stack, Frame(variable,
                                             ruleout_counts(domains, variable),
                                             NewObj(heap)))
            /\ heap' = deepcopy(heap, self_domains)
            /\ pc' = "loop"
            /\ UNCHANGED retval
    /\ UNCHANGED <<crossword, interleaving, keys, self_domains,
                   assignment, arcs, revision, ac3_result, cons, propagated,
                   result>>

\* backtrack_ac3, lines 281-283: the next value is assigned
backtrack_ac3_assign ==
    /\ pc = "loop"
    /\ interleaving
    /\ \E value \in next_values(Top.values) :
           /\ assignment' = Append(assignment, <<Top.variable, value>>)
           /\ stack' = Advance(stack, value)
    /\ pc' = "check"
    /\ UNCHANGED <<crossword, interleaving, keys, heap, self_domains,
                   arcs, revision, ac3_result, cons, retval, propagated,
                   result>>

(***************************************************************************)
(* backtrack_ac3, lines 284-288 and 293-294: when consistent, the slot's   *)
(* domain becomes {value} in the dict self.domains refers to and ac3 is    *)
(* called with the arcs (neighbor, slot); else the assignment is undone    *)
(* and self.domains is set to refer to this call's domains_copy.           *)
(***************************************************************************)
backtrack_ac3_check ==
    /\ pc = "check"
    /\ interleaving
    /\ cons' = consistent(assignment)
    /\ IF consistent(assignment)
       THEN /\ heap' = [heap EXCEPT ![self_domains][Top.variable] =
                                        {Last(assignment)[2]}]
            /\ \E other_vars \in Listings(neighbors(Top.variable)) :
                   arcs' = arcs_to(other_vars, Top.variable)
            /\ pc' = "ac3"
            /\ UNCHANGED <<assignment, self_domains>>
       ELSE /\ assignment' = Front(assignment)
            /\ self_domains' = Top.domains_copy
            /\ heap' = Collect(heap, Top.domains_copy, stack)
            /\ pc' = "loop"
            /\ UNCHANGED arcs
    /\ UNCHANGED <<crossword, interleaving, keys, stack, revision,
                   ac3_result, retval, propagated, result>>

\* backtrack_ac3, line 289: after ac3 has returned, whatever it returned
backtrack_ac3_recurse ==
    /\ pc = "ac3_return"
    /\ stack # <<>>
    /\ arcs' = <<>>
    /\ pc' = "backtrack"
    /\ UNCHANGED <<crossword, interleaving, keys, heap, self_domains,
                   assignment, stack, revision, ac3_result, cons, retval,
                   propagated, result>>

\* backtrack_ac3, lines 290-294: the recursive call has returned
backtrack_ac3_resume ==
    /\ pc = "return"
    /\ interleaving
    /\ stack # <<>>
    /\ IF Truthy(retval)
       THEN /\ stack' = Front(stack)
            /\ heap' = Collect(heap, self_domains, Front(stack))
            /\ UNCHANGED <<assignment, self_domains, pc>>
       ELSE /\ assignment' = Front(assignment)
            /\ self_domains' = Top.domains_copy
            /\ heap' = Collect(heap, Top.domains_copy, stack)
            /\ pc' = "loop"
            /\ UNCHANGED stack
    /\ UNCHANGED <<crossword, interleaving, keys, arcs, revision,
                   ac3_result, cons, retval, propagated, result>>

\* backtrack_ac3, line 295: no value is left
backtrack_ac3_fail ==
    /\ pc = "loop"
    /\ interleaving
    /\ DOMAIN Top.values = {}
    /\ stack' = Front(stack)
    /\ heap' = Collect(heap, self_domains, Front(stack))
    /\ retval' = NoSolution
    /\ pc' = "return"
    /\ UNCHANGED <<crossword, interleaving, keys, self_domains,
                   assignment, arcs, revision, ac3_result, cons, propagated,
                   result>>

(***************************************************************************)
(* solve, lines 100 and 103: the outermost call has returned.              *)
(***************************************************************************)
solve_return ==
    /\ pc = "return"
    /\ stack = <<>>
    /\ result' = retval
    /\ pc' = "done"
    /\ UNCHANGED <<crossword, interleaving, keys, heap, self_domains,
                   assignment, stack, arcs, revision, ac3_result, cons,
                   retval, propagated>>

Next ==
    \/ solve_node_consistency
    \/ ac3_seed
    \/ ac3_step
    \/ ac3_exit
    \/ solve_search
    \/ backtrack_enter
    \/ backtrack_assign
    \/ backtrack_check
    \/ backtrack_resume
    \/ backtrack_fail
    \/ backtrack_ac3_enter
    \/ backtrack_ac3_assign
    \/ backtrack_ac3_check
    \/ backtrack_ac3_recurse
    \/ backtrack_ac3_resume
    \/ backtrack_ac3_fail
    \/ solve_return

Spec == Init /\ [][Next]_vars

\* the interpreter runs the program to its end
FairSpec == Spec /\ WF_vars(Next)

(***************************************************************************)
(* Vocabulary of the properties: fills of the whole grid, stated on the    *)
(* geometry and the word list rather than on the solver's functions.       *)
(***************************************************************************)
\* the mapping a dict holds
Mapping(asg) == [v \in Assigned(asg) |-> ValueOf(asg, v)]

\* the letters of two slots' words agree on the cell they share, if any
AgreeOnCell(x, y, wx, wy) ==
    \A kx \in 1..Len(wx), ky \in 1..Len(wy) :
        (kx <= x.length /\ ky <= y.length /\ Cells(x)[kx] = Cells(y)[ky])
            => wx[kx] = wy[ky]

\* f maps a set of slots to words: distinct words, of the slots' lengths,
\* agreeing wherever two of the slots cross
ValidOn(f) ==
    /\ \A x \in DOMAIN f : Len(f[x]) = x.length
    /\ \A x, y \in DOMAIN f :
           x # y => f[x] # f[y] /\ AgreeOnCell(x, y, f[x], f[y])

\* the domain node consistency must leave for slot v
NodeConsistent(v) == {w \in crossword.words : Len(w) = v.length}

SolutionExists ==
    \E f \in [crossword.variables -> crossword.words] : ValidOn(f)

\* C1: whenever solve returns an assignment, for either value of
\* interleaving, the assignment has every slot, passes consistent (distinct
\* words, each of its slot's length, crossing slots agreeing on the shared
\* cell) and uses only words of the word list.
C1_Soundness ==
    (pc = "done" /\ result.found) =>
        /\ Assigned(result.assignment) = crossword.variables
        /\ consistent(result.assignment)
        /\ ValidOn(Mapping(result.assignment))
        /\ \A v \in crossword.variables :
               Mapping(result.assignment)[v] \in crossword.words

C1_Witness ==
    /\ pc = "done"
    /\ result.found
    /\ interleaving
    /\ Cardinality(crossword.variables) = 3

\* C2: when some complete assignment satisfies the length, overlap and
\* uniqueness constraints, solve with interleaving = false returns an
\* assignment.
C2_PlainComplete ==
    (pc = "done" /\ ~ interleaving /\ SolutionExists) => result.found

C2_Witness ==
    /\ pc = "done"
    /\ ~ interleaving
    /\ SolutionExists
    /\ result.found
    /\ \E v \in crossword.variables : propagated[v] # NodeConsistent(v)
    /\ Cardinality(crossword.variables) = 3

\* C3: solve with interleaving = true returns an assignment exactly when
\* solve with interleaving = false does.  The plain search returns an
\* assignment exactly when a valid fill exists (C1, C2), so the interleaved
\* search must return one exactly when a valid fill exists.
C3_VariantEquivalence ==
    (pc = "done" /\ interleaving) => (result.found <=> SolutionExists)

\* C4: if some slot's domain is empty once solve has run node consistency
\* and the global AC-3, whatever that AC-3 returned, solve returns "no
\* solution", for either variant.
C4_EmptyDomainNoSolution ==
    (pc = "done" /\ \E v \in crossword.variables : propagated[v] = {})
        => ~ result.found

C4_Witness ==
    /\ pc = "done"
    /\ ~ result.found
    /\ interleaving
    /\ crossword.words # {}
    /\ \E v \in crossword.variables : propagated[v] = {}
    /\ \E v \in crossword.variables :
           \E w \in crossword.words : Len(w) = v.length

\* C5: every run of solve eventually returns, and what it returns is a
\* complete assignment or "no solution".
C5_Total ==
    <>(/\ pc = "done"
       /\ \/ result = NoSolution
          \/ /\ result.found
             /\ Assigned(result.assignment) = crossword.variables)

C5_Witness ==
    /\ pc = "done"
    /\ result = NoSolution
    /\ Cardinality(crossword.variables) = 3
    /\ \A v \in crossword.variables : propagated[v] # {}

\* C6: after enforce_node_consistency the domain of every slot is exactly
\* the words of the word list that have the slot's length.
C6_NodeConsistency ==
    (pc = "ac3" /\ stack = <<>>) =>
        \A v \in crossword.variables : domains[v] = NodeConsistent(v)

C6_Witness ==
    /\ pc = "ac3"
    /\ stack = <<>>
    /\ \E v \in crossword.variables :
           domains[v] # {} /\ domains[v] # crossword.words

\* the words of x's domain that have a different word in y's domain
\* agreeing with them on the shared cell, if there is one
Supported(doms, x, y) ==
    {vx \in doms[x] :
        \E vy \in doms[y] : vy # vx /\ AgreeOnCell(x, y, vx, vy)}

\* C7: revise(x, y) leaves in x's domain exactly the words that have a
\* different word in y's domain satisfying the overlap constraint, returns
\* true exactly when it removed a word, and changes no other domain.
C7_Revise ==
    [][(pc = "ac3_loop" /\ arcs # <<>>) =>
          LET x == Last(arcs)[1]
              y == Last(arcs)[2]
          IN  x # y =>
                /\ domains'[x] = Supported(domains, x, y)
                /\ revision' = (domains'[x] # domains[x])
                /\ \A v \in crossword.variables \ {x} :
                       domains'[v] = domains[v]]_vars

C7_Witness ==
    /\ pc = "ac3_loop"
    /\ revision
    /\ \E v \in crossword.variables :
           domains[v] # {} /\ domains[v] # NodeConsistent(v)

\* every word left in a slot's domain has a different word in each
\* neighbor's domain with the same letter on the shared cell
ArcConsistent(doms) ==
    \A x, y \in crossword.variables :
        (x # y /\ \E kx \in 1..x.length, ky \in 1..y.length :
                      Cells(x)[kx] = Cells(y)[ky])
            => Supported(doms, x, y) = doms[x]

\* C8: when ac3 called without a queue returns success, the domains are
\* arc consistent between neighbors.
C8_ArcConsistent ==
    (pc = "ac3_return" /\ stack = <<>> /\ ac3_result) => ArcConsistent(domains)

C8_Witness ==
    /\ pc = "ac3_return"
    /\ stack = <<>>
    /\ ac3_result
    /\ \E v \in crossword.variables :
           /\ neighbors(v) # {}
           /\ domains[v] # {}
           /\ domains[v] # NodeConsistent(v)

\* two crossing slots whose node-consistent domains are the same single word
SameSingleWord ==
    \E x, y \in crossword.variables :
        /\ x # y
        /\ y \in neighbors(x)
        /\ Cardinality(NodeConsistent(x)) = 1
        /\ NodeConsistent(x) = NodeConsistent(y)

\* C9: ac3 returns failure in the very iteration whose revision empties
\* the revised domain, and only then; so after a failure some domain is
\* empty; and the global ac3 fails when two crossing slots start with the
\* same single-word domain.
C9_FailFast ==
    /\ [][(pc = "ac3_loop" /\ arcs # <<>>) =>
             LET x == Last(arcs)[1]
             IN  (domains[x] # {} /\ domains'[x] = {})
                     <=> (pc' = "ac3_return" /\ ~ ac3_result')]_vars
    /\ []((pc = "ac3_return" /\ ~ ac3_result) =>
             \E v \in crossword.variables : domains[v] = {})
    /\ []((pc = "ac3_return" /\ stack = <<>> /\ SameSingleWord) => ~ ac3_result)

C9_Witness ==
    /\ pc = "ac3_return"
    /\ stack = <<>>
    /\ ~ ac3_result
    /\ SameSingleWord

C11_Deterministic ==
    (pc = "backtrack" /\ ~ assignment_complete(assignment)) =>
        /\ Cardinality(select_unassigned_variable(domains, assignment)) = 1
        /\ \A var \in select_unassigned_variable(domains, assignment) :
               Cardinality(order_domain_values(domains, var)) = 1

(***************************************************************************)
(* C12  Exact restore in the interleaved variant: within one call of       *)
(* backtrack_ac3, each time the loop is about to try a word and when the   *)
(* loop is over and the call returns None, the contents of self.domains    *)
(* are the contents the call copied at line 280.                           *)
(***************************************************************************)
C12_ExactRestore ==
    (pc = "loop" /\ interleaving) => domains = Top.snapshot

(***************************************************************************)
(* C13  In the interleaved variant the recursive call of backtrack_ac3 for *)
(* a word is made only when the ac3 run seeded with the arcs (neighbor,    *)
(* assigned slot) returned True; after a run that returned False the       *)
(* search makes no recursive call for that word.                           *)
(***************************************************************************)
C13_RecurseOnlyAfterSuccess ==
    [][(pc = "ac3_return" /\ stack # <<>> /\ pc' = "backtrack")
           => ac3_result]_vars

(***************************************************************************)
(* C14  Assignment rollback: whenever a call of backtrack or backtrack_ac3 *)
(* returns None, the assignment is the mapping the call received on entry, *)
(* with the same keys in the same order.                                   *)
(***************************************************************************)
C14_Rollback ==
    [][(pc = "loop" /\ pc' = "return")
           => (retval' = NoSolution /\ assignment' = Top.entry)]_vars

\* a nested call of the plain search, every domain holding words, has tried
\* its words and returned None
C14_Witness ==
    /\ pc = "return"
    /\ retval = NoSolution
    /\ stack # <<>>
    /\ ~ interleaving
    /\ \A v \in crossword.variables : domains[v] # {}
    /\ assignment # <<>>

\* every word of f differs from the words of the other slots and has their
\* letters on the cells it shares with them
MutuallyConsistent(f) ==
    \A x, y \in DOMAIN f :
        x # y => f[x] # f[y] /\ AgreeOnCell(x, y, f[x], f[y])

(***************************************************************************)
(* C15  Consistent partial assignment: in every reachable state of either  *)
(* search variant in which the assignment is non-empty, every assigned     *)
(* word is consistent with every other assigned word (distinct words, the  *)
(* same letter on a shared cell).                                          *)
(***************************************************************************)
C15_AlwaysConsistent ==
    assignment # <<>> => MutuallyConsistent(Mapping(assignment))

(***************************************************************************)
(* C15, amended: the same holds in every state but the one between the     *)
(* tentative assignment of a word (line 260 / 282) and the consistent test *)
(* that follows it (line 262 / 284); there every word but the one just     *)
(* assigned is consistent with the others.                                 *)
(***************************************************************************)
C15_ConsistentOnceChecked ==
    assignment # <<>> =>
        IF pc = "check"
        THEN MutuallyConsistent(Mapping(Front(assignment)))
        ELSE MutuallyConsistent(Mapping(assignment))

\* two crossing slots hold words that passed the test and the search goes on
C15_Witness ==
    /\ pc = "backtrack"
    /\ \E x, y \in Assigned(assignment) : x # y /\ overlaps(x, y) # None
    /\ ~ assignment_complete(assignment)

(***************************************************************************)
(* C16  AC-3 terminates: every run of ac3, whatever the store and the      *)
(* queue it starts from, reaches its return, with the queue empty when it  *)
(* returns True and a domain empty when it returns False; and an iteration *)
(* adds arcs to the queue only when its revision made x's domain strictly  *)
(* smaller, the arcs added all pointing at x.                              *)
(***************************************************************************)
C16_Terminates ==
    /\ (pc = "ac3") ~>
           (/\ pc = "ac3_return"
            /\ IF ac3_result
               THEN arcs = <<>>
               ELSE \E v \in crossword.variables : domains[v] = {})
    /\ [][(pc = "ac3_loop" /\ arcs # <<>>) =>
            LET x == Last(arcs)[1]
                n == Len(arcs)
            IN  \/ arcs' = Front(arcs)
                \/ /\ domains'[x] \subseteq domains[x]
                   /\ domains'[x] # domains[x]
                   /\ Len(arcs') >= n
                   /\ SubSeq(arcs', 1, n - 1) = Front(arcs)
                   /\ \A k \in n..Len(arcs') :
                          arcs'[k][2] = x /\ arcs'[k][1] \in neighbors(x)]_vars

\* the global run has revised the slot two others cross and put an arc back:
\* the queue is as long as at the start although an arc was taken
C16_Witness ==
    /\ pc = "ac3_loop"
    /\ stack = <<>>
    /\ revision
    /\ Len(arcs) >= Len(all_arcs(keys))
    /\ arcs # <<>>

(***************************************************************************)
(* C17  Seeding only when no queue is supplied: ac3 starts from every      *)
(* ordered pair of distinct slots when solve calls it without a queue, and *)
(* from the supplied queue, unchanged, when backtrack_ac3 calls it with    *)
(* the list of arcs (neighbor, assigned slot), also when that list is      *)
(* empty because the assigned slot has no neighbors; so, with the arcs an  *)
(* iteration puts back, a supplied run revises no other arcs.              *)
(***************************************************************************)
C17_SeedOnlyWhenAbsent ==
    [][pc = "ac3" =>
          IF stack = <<>>
          THEN Range(arcs') = {a \in crossword.variables \X crossword.variables :
                                   a[1] # a[2]}
          ELSE arcs' = arcs]_vars

\* the number of slots that share a cell with slot v, by the grid geometry
Crossings(v) ==
    Cardinality({u \in crossword.variables \ {v} :
                    Range(Cells(u)) \cap Range(Cells(v)) # {}})

(***************************************************************************)
(* C18  MRV and degree: the slot a call of the search selects for an       *)
(* incomplete assignment is not in the assignment, no unassigned slot has  *)
(* a smaller current domain, and no unassigned slot with a domain of the   *)
(* same size crosses more slots.                                           *)
(***************************************************************************)
C18_MRVDegree ==
    [][(pc = "backtrack" /\ ~ assignment_complete(assignment)) =>
          LET var == Last(stack').variable
              unassigned == {v \in crossword.variables :
                                \A k \in 1..Len(assignment) :
                                    assignment[k][1] # v}
          IN  /\ Len(stack') = Len(stack) + 1
              /\ var \in unassigned
              /\ \A u \in unassigned :
                     /\ Cardinality(domains[var]) <= Cardinality(domains[u])
                     /\ Cardinality(domains[u]) = Cardinality(domains[var])
                            => Crossings(var) >= Crossings(u)]_vars

\* a call has just selected its slot where another unassigned slot has a
\* domain of the same size and crosses fewer slots
C18_Witness ==
    /\ pc = "loop"
    /\ Top.snapshot = domains
    /\ Top.entry = assignment
    /\ DOMAIN Top.values = domains[Top.variable]
    /\ domains[Top.variable] # {}
    /\ \E u \in crossword.variables \ Assigned(assignment) :
           /\ Cardinality(domains[u]) = Cardinality(domains[Top.variable])
           /\ Crossings(u) < Crossings(Top.variable)

\* the number of pairs (slot u crossing var, word of u's domain) whose word
\* has another letter than w on the shared cell, by the grid geometry
FailingPairs(doms, var, w) ==
    Cardinality({p \in UNION {{<<u, wu>> : wu \in doms[u]} :
                              u \in {u \in crossword.variables \ {var} :
                                        Range(Cells(u)) \cap Range(Cells(var)) # {}}} :
                    ~ AgreeOnCell(var, p[1], w, p[2])})

\* s lists every word of var's domain once, the counts never decreasing
SortedListing(doms, var, s) ==
    /\ Len(s) = Cardinality(doms[var])
    /\ Range(s) = doms[var]
    /\ \A k \in 1..(Len(s) - 1) :
           FailingPairs(doms, var, s[k]) <= FailingPairs(doms, var, s[k + 1])

(***************************************************************************)
(* C19  Least-constraining-value order: order_domain_values returns a list *)
(* that holds every word of the slot's current domain exactly once, in an  *)
(* order along which the number of (neighbor slot, neighbor word) pairs    *)
(* failing the overlap constraint with the word never decreases.  Stated   *)
(* on the lists of the root call, and on the walk of every call: it starts *)
(* with the whole domain left, takes each time a word still left with the  *)
(* least count, and ends when no word is left.                             *)
(***************************************************************************)
C19_LeastConstraining ==
    [][/\ (pc = "backtrack" /\ pc' = "loop") =>
              LET var == Last(stack').variable
              IN  /\ DOMAIN Last(stack').values = domains[var]
                  /\ stack = <<>> =>
                        /\ order_domain_values(domains, var) # {}
                        /\ \A s \in order_domain_values(domains, var) :
                               SortedListing(domains, var, s)
                        /\ next_values(Last(stack').values) =
                               {s[1] : s \in {t \in order_domain_values(domains, var) :
                                                 t # <<>>}}
       /\ (pc = "loop" /\ pc' = "check") =>
              LET value == Last(assignment')[2]
                  left  == DOMAIN Top.values
              IN  /\ value \in left
                  /\ \A other \in left :
                         FailingPairs(Top.snapshot, Top.variable, value)
                             <= FailingPairs(Top.snapshot, Top.variable, other)
                  /\ DOMAIN Last(stack').values = left \ {value}
       /\ (pc = "loop" /\ pc' = "return") => DOMAIN Top.values = {}]_vars

\* a walk that has taken two words or more takes a word while one with a
\* larger count is still left
C19_Witness ==
    /\ pc = "check"
    /\ Last(assignment)[1] = Top.variable
    /\ Cardinality(DOMAIN Top.values) + 2 <= Cardinality(Top.snapshot[Top.variable])
    /\ \E w \in DOMAIN Top.values :
           FailingPairs(Top.snapshot, Top.variable, Last(assignment)[2])
               < FailingPairs(Top.snapshot, Top.variable, w)

(***************************************************************************)
(* C20  Whenever ac3, called without a queue on any store (also one where  *)
(* node consistency left a domain empty, also on a grid with one slot),    *)
(* returns True, no slot's domain is empty.                                *)
(***************************************************************************)
C20_SuccessNoEmptyDomain ==
    (pc = "ac3_return" /\ stack = <<>> /\ ac3_result) =>
        \A v \in crossword.variables : domains[v] # {}

(***************************************************************************)
(* C20, amended: whenever that call returns True, either no slot's domain  *)
(* is empty or every slot's domain is empty; the second happens exactly    *)
(* when no word of the list has the length of any slot, and then ac3 has   *)
(* removed nothing.                                                        *)
(***************************************************************************)
C20_SuccessAllOrNone ==
    (pc = "ac3_return" /\ stack = <<>> /\ ac3_result) =>
        \/ \A v \in crossword.variables : domains[v] # {}
        \/ \A v \in crossword.variables :
               domains[v] = {} /\ NodeConsistent(v) = {}

\* two slots or more, words in the list, none of a slot's length: the call
\* returns True over empty domains
C20_Witness ==
    /\ pc = "ac3_return"
    /\ stack = <<>>
    /\ ac3_result
    /\ Cardinality(crossword.variables) >= 2
    /\ crossword.words # {}
    /\ \A v \in crossword.variables : domains[v] = {}

====
